---- MODULE Spec2Model ----
(***************************************************************************)
(* Model of the donation server (pkg/handler/handler.go and the server's   *)
(* main): the HTTP handlers HandleCreatePaymentIntent and HandleWebhook,   *)
(* the payment API (Customers.Get, paymentintent.New), the broker client   *)
(* (ProduceSync) and the startup that wires them together.                 *)
(*                                                                         *)
(* One request is followed from its arrival to its response.  The handlers *)
(* share no mutable state (only the immutable DonationHandler), so the     *)
(* request's own variables are per-request locals; the broker's topic is   *)
(* the only state that outlives a request.  Every blocking call to an      *)
(* external service is a step of its own, so the order of the calls of one *)
(* request is visible in the behaviour.                                    *)
(***************************************************************************)
EXTENDS Integers, Sequences, FiniteSets, TLC

(***************************************************************************)
(* Bounds of the model.                                                    *)
(***************************************************************************)
\* most values of the "amount" query parameter in one request
MaxAmounts == 2
\* requests are accepted while the topic holds fewer records than this
MaxTopic == 2

(***************************************************************************)
(* Program constants.                                                      *)
(***************************************************************************)
\* Timeout = 500 * time.Millisecond
Timeout == 500
CheckoutSessionCompleted == "checkout.session.completed"

StatusOK == 200
StatusBadRequest == 400
StatusMethodNotAllowed == 405
StatusInternalServerError == 500

(***************************************************************************)
(* strconv.ParseInt(s, 10, 64).  A string is a sequence of one-character   *)
(* strings; an int64 is kept as a sign and a magnitude in decimal digits   *)
(* without leading zeros, so that the 64-bit range check is the real one.  *)
(***************************************************************************)
Digits == <<"0", "1", "2", "3", "4", "5", "6", "7", "8", "9">>

IsDigit(c) == \E i \in 1..Len(Digits) : Digits[i] = c

DigitVal(c) == (CHOOSE i \in 1..Len(Digits) : Digits[i] = c) - 1

RECURSIVE StripZeros(_)
StripZeros(ds) ==
    IF Len(ds) > 1 /\ Head(ds) = "0" THEN StripZeros(Tail(ds)) ELSE ds

RECURSIVE LexLess(_, _)
\* a < b for digit strings of equal length
LexLess(a, b) ==
    IF a = <<>> THEN FALSE
    ELSE IF DigitVal(Head(a)) # DigitVal(Head(b))
         THEN DigitVal(Head(a)) < DigitVal(Head(b))
         ELSE LexLess(Tail(a), Tail(b))

\* a < b for magnitudes without leading zeros
MagLess(a, b) ==
    IF Len(a) # Len(b) THEN Len(a) < Len(b) ELSE LexLess(a, b)

\* 1 << 63, the cutoff of a 64-bit signed integer
Cutoff64 ==
    <<"9","2","2","3","3","7","2","0","3","6","8","5","4","7","7","5","8","0","8">>
\* 1<<63 - 1
MaxInt64 ==
    <<"9","2","2","3","3","7","2","0","3","6","8","5","4","7","7","5","8","0","7">>

Int64(neg, mag) == [neg |-> neg, mag |-> mag]
Zero64 == Int64(FALSE, <<"0">>)

\* n < 1 for an int64
LessThanOne(n) == n.neg \/ n.mag = <<"0">>

ParseInt(s) ==
    IF s = <<>> THEN [n |-> Zero64, err |-> "ErrSyntax"]
    ELSE LET neg  == Head(s) = "-"
             rest == IF Head(s) \in {"+", "-"} THEN Tail(s) ELSE s
         IN IF rest = <<>> \/ \E i \in 1..Len(rest) : ~IsDigit(rest[i])
            THEN [n |-> Zero64, err |-> "ErrSyntax"]
            ELSE LET un == StripZeros(rest)
                 IN IF ~neg /\ ~MagLess(un, Cutoff64)
                    THEN [n |-> Int64(FALSE, MaxInt64), err |-> "ErrRange"]
                    ELSE IF neg /\ MagLess(Cutoff64, un)
                    THEN [n |-> Int64(TRUE, Cutoff64), err |-> "ErrRange"]
                    ELSE [n |-> Int64(neg /\ un # <<"0">>, un), err |-> "nil"]

\* getAmount without the check for a repeated parameter: the first value is taken
getAmountFirstOfMany(amounts) ==
    IF Len(amounts) < 1
    THEN [n |-> Zero64, err |-> "missing amount query parameter"]
    ELSE ParseInt(amounts[1])

(***************************************************************************)
(* getAmount: r.URL.Query()["amount"].  The empty list is the absent key   *)
(* (url.Values never holds a key with no value).                           *)
(***************************************************************************)
getAmount(amounts) ==
    IF Len(amounts) < 1
    THEN [n |-> Zero64, err |-> "missing amount query parameter"]
    ELSE IF Len(amounts) > 1
    THEN [n |-> Zero64, err |-> "more than one amount is specified"]
    ELSE ParseInt(amounts[1])

(***************************************************************************)
(* The payment provider and the webhook payloads.                          *)
(***************************************************************************)
\* the customers the payment provider holds, by ID
StripeCustomers ==
    [id \in {"cus_A", "cus_B"} |->
        [ID |-> id,
         Name |-> IF id = "cus_A" THEN "Ana" ELSE "Bo",
         Email |-> IF id = "cus_A" THEN "ana@example.org" ELSE "bo@example.org"]]

NoCustomer == [ID |-> "", Name |-> "", Email |-> ""]

\* event.Data.Object["customer"]: absent, JSON null, or a string
CustomerFields ==
    {[t |-> "absent", s |-> ""], [t |-> "null", s |-> ""]}
        \cup {[t |-> "string", s |-> id] : id \in {"cus_A", "cus_B", "cus_X"}}

EventTypes == {CheckoutSessionCompleted, "charge.succeeded"}

\* the body of a webhook request: a JSON event
Payloads == [Type : EventTypes, customer : CustomerFields]

\* the same event with its type changed (a payload altered after signing)
Tampered(p) ==
    [p EXCEPT !.Type = IF p.Type = CheckoutSessionCompleted
                       THEN "charge.succeeded" ELSE CheckoutSessionCompleted]

ConfiguredSecret == "whsec_configured"
Secrets == {ConfiguredSecret, "whsec_other"}

\* HMAC-SHA256 as an ideal MAC: determined by the key and the signed payload
ComputeSignature(secret, payload) == [key |-> secret, signed |-> payload]

NoSignature == [present |-> FALSE, fresh |-> FALSE,
                v1 |-> ComputeSignature("", [Type |-> "", customer |-> [t |-> "absent", s |-> ""]])]

\* the Stripe-Signature headers a request for payload p can carry
SignatureHeaders(p) ==
    {NoSignature} \cup
    {[present |-> TRUE, fresh |-> f, v1 |-> ComputeSignature(k, q)] :
        f \in BOOLEAN, k \in Secrets, q \in {p, Tampered(p)}}

NoEvent == [Type |-> "", customer |-> [t |-> "absent", s |-> ""]]

\* ConstructEvent that parses the body without verifying the signature
ConstructEventUnverified(payload, header, secret) ==
    [event |-> payload, err |-> "nil"]

\* webhook.ConstructEvent(b, header, secret)
ConstructEvent(payload, header, secret) ==
    IF ~header.present
    THEN [event |-> NoEvent, err |-> "webhook has no Stripe-Signature header"]
    ELSE IF ~header.fresh
    THEN [event |-> NoEvent, err |-> "timestamp wasn't within tolerance"]
    ELSE IF header.v1 # ComputeSignature(secret, payload)
    THEN [event |-> NoEvent, err |-> "webhook had no valid signature"]
    ELSE [event |-> payload, err |-> "nil"]

\* the branch taken on another event type
TypeMatchesChargeSucceeded(event) == event.Type = "charge.succeeded"

\* event.Type == "checkout.session.completed"
TypeMatches(event) == event.Type = CheckoutSessionCompleted

\* customerId, ok := event.Data.Object["customer"].(string)
CustomerIdOf(event) ==
    [customerId |-> IF event.customer.t = "string" THEN event.customer.s ELSE "",
     ok |-> event.customer.t = "string"]

\* dh.stripeClient.Customers.Get(customerId, ...) when the API answers (up) or not
CustomersGet(customerId, up) ==
    IF ~up THEN [customer |-> NoCustomer, err |-> "connection error"]
    ELSE IF customerId \in DOMAIN StripeCustomers
    THEN [customer |-> StripeCustomers[customerId], err |-> "nil"]
    ELSE [customer |-> NoCustomer, err |-> "resource_missing"]

\* json.Marshal(customer)
Marshal(c) == [data |-> [json |-> "customer", id |-> c.ID, name |-> c.Name, email |-> c.Email],
               err |-> "nil"]

\* kgo.Record{Key: []byte(customer.ID), Value: data, Topic: dh.customerTopic}
NewRecord(c, data, topicName) == [Key |-> c.ID, Value |-> data, Topic |-> topicName]

NoRecord == NewRecord(NoCustomer, Marshal(NoCustomer).data, "")

\* no ProduceSync has returned
NoResult == [isNil |-> FALSE, err |-> "unset"]

(***************************************************************************)
(* Responses.  status 0: nothing written yet.                              *)
(***************************************************************************)
NoBody == [kind |-> "none", shape |-> "", message |-> ""]
NoResponse == [status |-> 0, body |-> NoBody]

\* http.Error(w, msg, code): a text/plain body
httpError(msg, code) ==
    [status |-> code, body |-> [kind |-> "text", shape |-> "line", message |-> msg]]

\* json.NewEncoder(&buf).Encode(v) for the values the handlers encode
JsonNull == [kind |-> "json", shape |-> "null", message |-> ""]
JsonErrorResponse(msg) == [kind |-> "json", shape |-> "error.message", message |-> msg]
JsonClientSecret(secret) == [kind |-> "json", shape |-> "clientSecret", message |-> secret]
JsonPublishableKey(key) == [kind |-> "json", shape |-> "publishableKey", message |-> key]

\* dh.writeJSON(w, v) on a response w: the first write sends status 200
\* unless WriteHeader was called before
writeJSON(w, encoded) ==
    [status |-> IF w.status = 0 THEN StatusOK ELSE w.status, body |-> encoded]

\* dh.writeJSONError(w, v, code): w.WriteHeader(code), then writeJSON
writeJSONError(w, encoded, code) ==
    writeJSON([w EXCEPT !.status = IF w.status = 0 THEN code ELSE w.status], encoded)

\* dh.writeJSONErrorMessage(w, message, code)
writeJSONErrorMessage(w, message, code) ==
    writeJSONError(w, JsonErrorResponse(message), code)

\* the handler returned: net/http sends 200 and an empty body if nothing was written
Returned(w) == IF w.status = 0 THEN [w EXCEPT !.status = StatusOK] ELSE w

(***************************************************************************)
(* State.                                                                  *)
(***************************************************************************)
VARIABLES
    phase,      \* "init" before main, "serving" in ListenAndServe, "exited"
    dh,         \* the DonationHandler main constructed
    routes,     \* the paths registered with http.HandleFunc
    pc,         \* where the request in hand is: "idle", "paymentintent.New",
                \* "Customers.Get", "ProduceSync" or "done"
    req,        \* the request in hand
    w,          \* its response: status and body as the client gets them
    panicked,   \* the handler panicked (net/http drops the connection)
    trace,      \* the steps the handler has taken, in order
    customer,   \* HandleWebhook's local: the customer fetched
    record,     \* HandleWebhook's local: the record handed to ProduceSync
    result,     \* HandleWebhook's local: what ProduceSync returned
    topic       \* the broker's topic: the records it has taken, in order

vars == <<phase, dh, routes, pc, req, w, panicked, trace, customer, record, result, topic>>

local == <<pc, req, w, panicked, trace, customer, record, result>>
server == <<phase, dh, routes>>

NilHandler == [publishableKey |-> "", webhookSecret |-> "", customerTopic |-> "",
               kafkaClient |-> "nil"]

\* NewHandler(publishableKey, webhookSecret, customerTopic, kafkaClient)
NewHandler(publishableKey, webhookSecret, customerTopic, kafkaClient) ==
    IF publishableKey = ""
    THEN [dh |-> NilHandler, err |-> "a publishableKey cannot be empty."]
    ELSE [dh |-> [publishableKey |-> publishableKey, webhookSecret |-> webhookSecret,
                  customerTopic |-> customerTopic, kafkaClient |-> kafkaClient],
          err |-> "nil"]

\* kgo.NewClient(kgo.SeedBrokers(...)): the client, or nil and an error
NewClient(fails) == IF fails THEN [client |-> "nil", err |-> "invalid seed broker"]
                    ELSE [client |-> "client", err |-> "nil"]

\* the amount strings requests carry
AmountStrings ==
    { <<>>, <<"0">>, <<"1">>, <<"-", "1">>, <<"+", "7">>, <<"0", "7">>, <<"1", "x">>,
      MaxInt64, Cutoff64 }

\* the values of the amount query parameter: none (the key is absent) to MaxAmounts
AmountLists == UNION {[1..k -> AmountStrings] : k \in 0..MaxAmounts}

Methods == {"GET", "POST"}

NoRequest == [path |-> "", method |-> "", amounts |-> <<>>, readable |-> FALSE,
              payload |-> NoEvent, header |-> NoSignature]

Init ==
    /\ phase = "init"
    /\ dh = NilHandler
    /\ routes = {}
    /\ pc = "idle"
    /\ req = NoRequest
    /\ w = NoResponse
    /\ panicked = FALSE
    /\ trace = <<>>
    /\ customer = NoCustomer
    /\ record = NoRecord
    /\ result = NoResult
    /\ topic = <<>>

(***************************************************************************)
(* main: the environment gives the publishable key and the bootstrap       *)
(* servers; the broker client's construction succeeds or fails.            *)
(***************************************************************************)
main(publishableKey, bootstrapServers, clientFails) ==
    LET kafkaClient == IF bootstrapServers # ""
                       THEN NewClient(clientFails).client ELSE "nil"
        h == NewHandler(publishableKey, ConfiguredSecret, "customers", kafkaClient)
    IN  /\ phase = "init"
        /\ IF h.err # "nil"
           THEN \* log.Fatalf
                /\ phase' = "exited"
                /\ UNCHANGED <<dh, routes>>
           ELSE /\ phase' = "serving"
                /\ dh' = h.dh
                /\ routes' = {"/config", "/create-payment-intent"}
                             \cup (IF bootstrapServers # "" THEN {"/webhook"} ELSE {})
        /\ UNCHANGED <<local, topic>>

Main ==
    \E publishableKey \in {"", "pk_test"}, bootstrapServers \in {"", "broker:9092"},
       clientFails \in BOOLEAN :
        /\ bootstrapServers = "" => ~clientFails
        /\ main(publishableKey, bootstrapServers, clientFails)

\* the server takes a request for a registered path
Ready(path) ==
    /\ phase = "serving"
    /\ path \in routes
    /\ pc = "idle"
    /\ Len(topic) < MaxTopic

(***************************************************************************)
(* HandleCreatePaymentIntent                                               *)
(***************************************************************************)
\* up to the call of paymentintent.New
CreatePaymentIntentEntry(r) ==
    LET a == getAmount(r.amounts)
    IN  IF a.err # "nil" \/ LessThanOne(a.n)
        THEN [pc |-> "done", w |-> Returned(NoResponse), trace |-> <<"getAmount.err">>]
        ELSE [pc |-> "paymentintent.New", w |-> NoResponse,
              trace |-> <<"getAmount.ok", "paymentintent.New">>]

HandleCreatePaymentIntent ==
    \E method \in Methods, amounts \in AmountLists :
        LET r == [NoRequest EXCEPT !.path = "/create-payment-intent",
                                   !.method = method, !.amounts = amounts]
            e == CreatePaymentIntentEntry(r)
        IN  /\ Ready("/create-payment-intent")
            /\ req' = r
            /\ pc' = e.pc
            /\ w' = e.w
            /\ trace' = e.trace
            /\ panicked' = FALSE
            /\ UNCHANGED <<server, customer, record, result, topic>>

\* pi, err := paymentintent.New(params) returned: "ok", a *stripe.Error or another error
AfterPaymentIntentNew(resp, outcome) ==
    IF outcome = "stripe.Error"
    THEN [w |-> writeJSONErrorMessage(resp, "stripe error", StatusBadRequest),
          trace |-> <<"paymentintent.New.err", "writeJSONErrorMessage">>]
    ELSE IF outcome = "error"
    THEN [w |-> writeJSONErrorMessage(resp, "Unknown server error", StatusInternalServerError),
          trace |-> <<"paymentintent.New.err", "writeJSONErrorMessage">>]
    ELSE [w |-> writeJSON(resp, JsonClientSecret("pi_secret")),
          trace |-> <<"paymentintent.New.ok", "writeJSON">>]

PaymentIntentNewReturns ==
    \E outcome \in {"ok", "stripe.Error", "error"} :
        LET a == AfterPaymentIntentNew(w, outcome)
        IN  /\ pc = "paymentintent.New"
            /\ pc' = "done"
            /\ w' = Returned(a.w)
            /\ trace' = trace \o a.trace
            /\ UNCHANGED <<server, req, panicked, customer, record, result, topic>>

(***************************************************************************)
(* HandleConfig                                                            *)
(***************************************************************************)
ConfigResponse(r, handler) ==
    IF r.method # "GET"
    THEN httpError("Method Not Allowed", StatusMethodNotAllowed)
    ELSE writeJSON(NoResponse, JsonPublishableKey(handler.publishableKey))

HandleConfig ==
    \E method \in Methods :
        LET r == [NoRequest EXCEPT !.path = "/config", !.method = method]
        IN  /\ Ready("/config")
            /\ req' = r
            /\ pc' = "done"
            /\ w' = Returned(ConfigResponse(r, dh))
            /\ trace' = <<IF r.method # "GET" THEN "http.Error" ELSE "writeJSON">>
            /\ panicked' = FALSE
            /\ UNCHANGED <<server, customer, record, result, topic>>

(***************************************************************************)
(* HandleWebhook                                                           *)
(***************************************************************************)
\* http.Error(w, err.Error(), code): err.Error() on a nil error is a nil
\* dereference, and the handler panics before anything is written
httpErrorOf(err, code) ==
    IF err = "nil"
    THEN [w |-> NoResponse, panicked |-> TRUE, trace |-> <<"panic">>]
    ELSE [w |-> httpError(err, code), panicked |-> FALSE, trace |-> <<"http.Error">>]

\* the event a request yields under the handler's secret
EventOf(r, handler) == ConstructEvent(r.payload, r.header, handler.webhookSecret)

\* from the entry of HandleWebhook to the call of Customers.Get
WebhookEntry(r, handler) ==
    IF r.method # "POST"
    THEN [pc |-> "done", panicked |-> FALSE,
          w |-> httpError("Method Not Allowed", StatusMethodNotAllowed),
          trace |-> <<"http.Error">>]
    ELSE IF ~r.readable
    THEN [pc |-> "done", panicked |-> FALSE,
          w |-> httpError("unexpected EOF", StatusBadRequest),
          trace |-> <<"ReadAll.err", "http.Error">>]
    ELSE LET ev == EventOf(r, handler)
         IN IF ev.err # "nil"
            THEN [pc |-> "done", panicked |-> FALSE,
                  w |-> httpError(ev.err, StatusBadRequest),
                  trace |-> <<"ReadAll.ok", "ConstructEvent.err", "http.Error">>]
            ELSE IF TypeMatches(ev.event)
            THEN IF ~CustomerIdOf(ev.event).ok
                 THEN \* err is still ConstructEvent's, which is nil here
                      LET e == httpErrorOf(ev.err, StatusBadRequest)
                      IN [pc |-> "done", panicked |-> e.panicked, w |-> e.w,
                          trace |-> <<"ReadAll.ok", "ConstructEvent.ok", "type.match",
                                      "customer.err">> \o e.trace]
                 ELSE [pc |-> "Customers.Get", panicked |-> FALSE, w |-> NoResponse,
                       trace |-> <<"ReadAll.ok", "ConstructEvent.ok", "type.match",
                                   "customer.ok", "Customers.Get">>]
            ELSE [pc |-> "done", panicked |-> FALSE,
                  w |-> writeJSON(NoResponse, JsonNull),
                  trace |-> <<"ReadAll.ok", "ConstructEvent.ok", "type.other", "writeJSON">>]

HandleWebhook ==
    \E method \in Methods, readable \in BOOLEAN, payload \in Payloads :
      \E header \in SignatureHeaders(payload) :
        LET r == [NoRequest EXCEPT !.path = "/webhook", !.method = method,
                                   !.readable = readable, !.payload = payload,
                                   !.header = header]
            e == WebhookEntry(r, dh)
        IN  /\ Ready("/webhook")
            /\ req' = r
            /\ pc' = e.pc
            /\ w' = IF e.panicked THEN e.w ELSE IF e.pc = "done" THEN Returned(e.w) ELSE e.w
            /\ panicked' = e.panicked
            /\ trace' = e.trace
            /\ UNCHANGED <<server, customer, record, result, topic>>

\* AfterCustomersGet that creates a customer instead of using the one fetched
AfterCustomersGetRecreating(r, handler, up) ==
    LET customerId == CustomerIdOf(EventOf(r, handler).event).customerId
        g == CustomersGet(customerId, up)
        created == [ID |-> "cus_new", Name |-> g.customer.Name, Email |-> g.customer.Email]
    IN  IF g.err # "nil"
        THEN [pc |-> "done", panicked |-> FALSE, customer |-> NoCustomer, record |-> NoRecord,
              w |-> httpError(g.err, StatusInternalServerError),
              trace |-> <<"Customers.Get.err", "http.Error">>]
        ELSE [pc |-> IF handler.kafkaClient = "nil" THEN "done" ELSE "ProduceSync",
              panicked |-> handler.kafkaClient = "nil", customer |-> created,
              record |-> NewRecord(created, Marshal(created).data, handler.customerTopic),
              w |-> NoResponse,
              trace |-> <<"Customers.Get.ok", "Customers.New", "Marshal.ok", "ProduceSync">>]

\* from the return of Customers.Get to the call of ProduceSync
AfterCustomersGet(r, handler, up) ==
    LET customerId == CustomerIdOf(EventOf(r, handler).event).customerId
        g == CustomersGet(customerId, up)
        m == Marshal(g.customer)
    IN  IF g.err # "nil"
        THEN [pc |-> "done", panicked |-> FALSE, customer |-> NoCustomer, record |-> NoRecord,
              w |-> httpError(g.err, StatusInternalServerError),
              trace |-> <<"Customers.Get.err", "http.Error">>]
        ELSE IF m.err # "nil"
        THEN [pc |-> "done", panicked |-> FALSE, customer |-> g.customer, record |-> NoRecord,
              w |-> httpError(m.err, StatusInternalServerError),
              trace |-> <<"Customers.Get.ok", "Marshal.err", "http.Error">>]
        ELSE IF handler.kafkaClient = "nil"
        THEN \* ProduceSync on a nil *kgo.Client dereferences it
             [pc |-> "done", panicked |-> TRUE, customer |-> g.customer,
              record |-> NewRecord(g.customer, m.data, handler.customerTopic),
              w |-> NoResponse,
              trace |-> <<"Customers.Get.ok", "Marshal.ok", "ProduceSync", "panic">>]
        ELSE [pc |-> "ProduceSync", panicked |-> FALSE, customer |-> g.customer,
              record |-> NewRecord(g.customer, m.data, handler.customerTopic),
              w |-> NoResponse,
              trace |-> <<"Customers.Get.ok", "Marshal.ok", "ProduceSync">>]

\* CustomersGetReturns that calls Customers.Get again when it failed
CustomersGetReturnsRetrying ==
    \E up \in BOOLEAN :
        LET a == AfterCustomersGet(req, dh, up)
        IN  /\ pc = "Customers.Get"
            /\ pc' = IF a.trace[1] = "Customers.Get.err" THEN "Customers.Get" ELSE a.pc
            /\ panicked' = a.panicked
            /\ customer' = a.customer
            /\ record' = a.record
            /\ w' = IF a.trace[1] = "Customers.Get.err" THEN w
                    ELSE IF a.pc = "done" /\ ~a.panicked THEN Returned(a.w) ELSE a.w
            /\ trace' = IF a.trace[1] = "Customers.Get.err"
                        THEN trace \o <<"Customers.Get.err", "Customers.Get">>
                        ELSE trace \o a.trace
            /\ UNCHANGED <<server, req, result, topic>>

CustomersGetReturns ==
    \E up \in BOOLEAN :
        LET a == AfterCustomersGet(req, dh, up)
        IN  /\ pc = "Customers.Get"
            /\ pc' = a.pc
            /\ panicked' = a.panicked
            /\ customer' = a.customer
            /\ record' = a.record
            /\ w' = IF a.pc = "done" /\ ~a.panicked THEN Returned(a.w) ELSE a.w
            /\ trace' = trace \o a.trace
            /\ UNCHANGED <<server, req, result, topic>>

\* the broker's answers to a produce request
BrokerAnswers == {"ack", "error", "nil"}
\* milliseconds until the answer is there
Latencies == {100, 900}

\* dh.kafkaClient.ProduceSync(ctx, &record) under context.WithTimeout(.., Timeout)
ProduceSync(answer, latency) ==
    IF answer = "nil" THEN [isNil |-> TRUE, err |-> "nil"]
    ELSE IF latency > Timeout THEN [isNil |-> FALSE, err |-> "context deadline exceeded"]
    ELSE IF answer = "error" THEN [isNil |-> FALSE, err |-> "broker error"]
    ELSE [isNil |-> FALSE, err |-> "nil"]

\* AfterProduceSync that checks the result for nil only, not its error
AfterProduceSyncIgnoringErr(resp, res) ==
    IF res.isNil
    THEN [w |-> httpError("Could not produce to customer topic.", StatusInternalServerError),
          trace |-> <<"ProduceSync.nil", "http.Error">>]
    ELSE [w |-> writeJSON(resp, JsonNull), trace |-> <<"ProduceSync.ok", "writeJSON">>]

\* AfterProduceSync without the return after http.Error: the success body follows
AfterProduceSyncNoReturn(resp, res) ==
    IF res.isNil
    THEN [w |-> writeJSON(httpError("Could not produce to customer topic.",
                                    StatusInternalServerError), JsonNull),
          trace |-> <<"ProduceSync.nil", "http.Error", "writeJSON">>]
    ELSE IF res.err # "nil"
    THEN [w |-> writeJSON(httpError(res.err, StatusInternalServerError), JsonNull),
          trace |-> <<"ProduceSync.err", "http.Error", "writeJSON">>]
    ELSE [w |-> writeJSON(resp, JsonNull), trace |-> <<"ProduceSync.ok", "writeJSON">>]

\* from the return of ProduceSync to the end of HandleWebhook
AfterProduceSync(resp, res) ==
    IF res.isNil
    THEN [w |-> httpError("Could not produce to customer topic.", StatusInternalServerError),
          trace |-> <<"ProduceSync.nil", "http.Error">>]
    ELSE IF res.err # "nil"
    THEN [w |-> httpError(res.err, StatusInternalServerError),
          trace |-> <<"ProduceSync.err", "http.Error">>]
    ELSE [w |-> writeJSON(resp, JsonNull), trace |-> <<"ProduceSync.ok", "writeJSON">>]

ProduceSyncReturns ==
    \E answer \in BrokerAnswers, latency \in Latencies :
        LET a == AfterProduceSync(w, ProduceSync(answer, latency))
        IN  /\ pc = "ProduceSync"
            /\ pc' = "done"
            /\ result' = ProduceSync(answer, latency)
            /\ w' = Returned(a.w)
            /\ trace' = trace \o a.trace
            \* an acknowledged record is in the topic, however late the answer
            /\ topic' = IF answer = "ack" THEN Append(topic, record) ELSE topic
            /\ UNCHANGED <<server, req, panicked, customer, record>>

\* the handler has returned and the response is with the client: the
\* request's locals are gone
Served ==
    /\ pc = "done"
    /\ pc' = "idle"
    /\ req' = NoRequest
    /\ w' = NoResponse
    /\ panicked' = FALSE
    /\ trace' = <<>>
    /\ customer' = NoCustomer
    /\ record' = NoRecord
    /\ result' = NoResult
    /\ UNCHANGED <<server, topic>>

Next ==
    \/ Main
    \/ HandleConfig
    \/ HandleCreatePaymentIntent
    \/ PaymentIntentNewReturns
    \/ HandleWebhook
    \/ CustomersGetReturns
    \/ ProduceSyncReturns
    \/ Served

Spec == Init /\ [][Next]_vars

(***************************************************************************)
(* Properties.  What a request is, is read off the request itself (req),   *)
(* not off what the handler made of it.                                    *)
(***************************************************************************)
\* how often a step occurs in a trace
Count(t, step) == Cardinality({i \in DOMAIN t : t[i] = step})

\* the position of the first occurrence of a step (0: none)
IndexOf(t, step) ==
    IF \E i \in DOMAIN t : t[i] = step
    THEN CHOOSE i \in DOMAIN t : t[i] = step /\ \A j \in 1..(i - 1) : t[j] # step
    ELSE 0

\* the request carries a fresh signature made with the configured secret over its body
ValidlySigned(r) ==
    /\ r.header.present
    /\ r.header.fresh
    /\ r.header.v1.key = ConfiguredSecret
    /\ r.header.v1.signed = r.payload

\* a POST to /webhook is in hand
WebhookPost == pc # "idle" /\ req.path = "/webhook" /\ req.method = "POST"

\* a POST to /webhook whose body was read and whose signature verifies
SignedWebhook == WebhookPost /\ req.readable /\ ValidlySigned(req)

NoLookup == Count(trace, "Customers.Get") = 0 /\ customer = NoCustomer
NoPublish == Count(trace, "ProduceSync") = 0 /\ record = NoRecord /\ result = NoResult

\* C1: a POST /webhook request whose Stripe-Signature does not verify is answered
\* 400, and no customer lookup and no publish is made in it.
C1_InvalidSignatureRejected ==
    (WebhookPost /\ ~ValidlySigned(req)) =>
        /\ pc = "done"
        /\ ~panicked
        /\ w.status = StatusBadRequest
        /\ NoLookup
        /\ NoPublish

C1_Witness ==
    /\ WebhookPost /\ pc = "done"
    /\ req.readable /\ req.header.present /\ req.header.fresh
    /\ req.header.v1.key # ConfiguredSecret
    /\ req.payload.Type = CheckoutSessionCompleted /\ req.payload.customer.t = "string"
    /\ w.status = StatusBadRequest

\* C2: a correctly signed checkout.session.completed event whose data object has
\* no "customer" string is answered 400 without a panic, lookup or publish.
C2_MissingCustomerAnswered400 ==
    (SignedWebhook /\ req.payload.Type = CheckoutSessionCompleted
        /\ req.payload.customer.t # "string") =>
        /\ pc = "done"
        /\ ~panicked
        /\ w.status = StatusBadRequest
        /\ NoLookup
        /\ NoPublish

\* C3: a correctly signed POST /webhook whose event type is not
\* checkout.session.completed is answered 200, with no lookup and no publish.
C3_OtherEventTypeIgnored ==
    (SignedWebhook /\ req.payload.Type # CheckoutSessionCompleted) =>
        /\ pc = "done"
        /\ ~panicked
        /\ w.status = StatusOK
        /\ w.body = JsonNull
        /\ NoLookup
        /\ NoPublish

C3_Witness ==
    /\ SignedWebhook /\ pc = "done"
    /\ req.payload.Type = "charge.succeeded"
    /\ req.payload.customer.t = "string"
    /\ w.status = StatusOK

\* the publish of the request in hand failed: a nil result, an error from the
\* broker, or the deadline of Timeout milliseconds passing
PublishFailed == result # NoResult /\ (result.isNil \/ result.err # "nil")

\* C4: when the publish fails, the response is 500 and the success body is not
\* written; the customer lookup completed before the publish was attempted and
\* its result stands.
C4_PublishFailureIs500 ==
    (pc = "done" /\ req.path = "/webhook" /\ PublishFailed) =>
        /\ w.status = StatusInternalServerError
        /\ w.body # JsonNull
        /\ Count(trace, "writeJSON") = 0
        /\ IndexOf(trace, "Customers.Get.ok") > 0
        /\ IndexOf(trace, "Customers.Get.ok") < IndexOf(trace, "ProduceSync")
        /\ customer = StripeCustomers[req.payload.customer.s]

C4_Witness ==
    /\ pc = "done" /\ req.path = "/webhook"
    /\ result.err = "context deadline exceeded"
    /\ w.status = StatusInternalServerError
    /\ customer # NoCustomer

\* a step of a handler that failed
FailureSteps ==
    {"getAmount.err", "ReadAll.err", "ConstructEvent.err", "customer.err",
     "Customers.Get.err", "Marshal.err", "ProduceSync.nil", "ProduceSync.err",
     "paymentintent.New.err"}

RequestFailed == \E i \in DOMAIN trace : trace[i] \in FailureSteps

\* C5: every failure outcome of a request to /create-payment-intent or /webhook
\* is answered 400 or 500 with a JSON error object {error:{message}}.
C5_FailuresAreJsonErrors ==
    (pc = "done" /\ req.path \in {"/create-payment-intent", "/webhook"} /\ RequestFailed) =>
        /\ w.status \in {StatusBadRequest, StatusInternalServerError}
        /\ w.body.kind = "json"
        /\ w.body.shape = "error.message"

\* s is a decimal integer of at least 1 that fits 64 bits: an optional sign "+",
\* then digits, not all of them zero
PositiveDecimal(s) ==
    LET ds == IF s # <<>> /\ Head(s) = "+" THEN Tail(s) ELSE s
    IN  /\ ds # <<>>
        /\ \A i \in DOMAIN ds : IsDigit(ds[i])
        /\ \E i \in DOMAIN ds : ds[i] # "0"
        /\ MagLess(StripZeros(ds), Cutoff64)

\* C6: a payment intent is created only for a request with exactly one amount
\* parameter that is a base-10 integer of at least 1.
C6_PaymentIntentOnlyForOneValidAmount ==
    (req.path = "/create-payment-intent" /\ Count(trace, "paymentintent.New") > 0) =>
        /\ Len(req.amounts) = 1
        /\ PositiveDecimal(req.amounts[1])

\* a payment intent was created for a valid amount
C6_Witness ==
    /\ req.path = "/create-payment-intent" /\ pc = "done"
    /\ req.amounts = << <<"+", "7">> >>
    /\ Count(trace, "paymentintent.New") = 1
    /\ w.body.shape = "clientSecret"

\* C7: when the event carries a customer ID and the lookup by it finds the
\* customer, that customer is the one in the record published, and no customer
\* is created.
C7_ExistingCustomerReused ==
    (req.path = "/webhook" /\ Count(trace, "Customers.Get.ok") > 0) =>
        /\ Count(trace, "Customers.New") = 0
        /\ customer = StripeCustomers[req.payload.customer.s]
        /\ record # NoRecord =>
              /\ record.Key = req.payload.customer.s
              /\ record.Value = Marshal(StripeCustomers[req.payload.customer.s]).data
        /\ Count(trace, "ProduceSync.ok") > 0 =>
              /\ topic # <<>>
              /\ topic[Len(topic)].Key = req.payload.customer.s

C7_Witness ==
    /\ req.path = "/webhook" /\ pc = "done"
    /\ req.payload.customer.s = "cus_B"
    /\ Count(trace, "ProduceSync.ok") = 1
    /\ Len(topic) = 2 /\ topic[1].Key = "cus_A" /\ topic[2].Key = "cus_B"

\* C8: a qualifying event without a customer ID is still resolved to a customer
\* (by email, or by creating one) and published.
C8_EventWithoutCustomerIdPublished ==
    (SignedWebhook /\ pc = "done" /\ req.payload.Type = CheckoutSessionCompleted
        /\ req.payload.customer.t # "string") =>
        /\ customer # NoCustomer
        /\ Count(trace, "ProduceSync") = 1

\* C9: nothing is retried: one request makes at most one customer lookup, at
\* most one publish and at most one payment-intent creation.
C9_NothingRetried ==
    /\ Count(trace, "Customers.Get") <= 1
    /\ Count(trace, "ProduceSync") <= 1
    /\ Count(trace, "paymentintent.New") <= 1

\* a request whose lookup failed, answered after the one call
C9_Witness ==
    /\ pc = "done" /\ req.path = "/webhook"
    /\ Count(trace, "Customers.Get.err") = 1
    /\ Count(trace, "Customers.Get") = 1
    /\ w.status = StatusInternalServerError

\* the publish of the request in hand succeeded
PublishSucceeded == result # NoResult /\ ~result.isNil /\ result.err = "nil"

\* step a occurs in the trace, and before step b if b occurs
Before(a, b) ==
    IndexOf(trace, b) > 0 => (IndexOf(trace, a) > 0 /\ IndexOf(trace, a) < IndexOf(trace, b))

\* C10: within one webhook request the steps come in the order signature
\* verification, event-type branch, customer resolution, publish, response: a
\* publish only after a verified signature, a matching type and a successful
\* lookup; the success body only after a successful publish or a type that
\* does not match; and after a failed step no later step.
C10_WebhookStepsInOrder ==
    req.path = "/webhook" =>
        /\ Before("ConstructEvent.ok", "type.match")
        /\ Before("ConstructEvent.ok", "type.other")
        /\ Before("type.match", "Customers.Get")
        /\ Before("Customers.Get.ok", "ProduceSync")
        /\ Before("ProduceSync.ok", "writeJSON") \/ Before("type.other", "writeJSON")
        /\ Count(trace, "ProduceSync") > 0 =>
              /\ ValidlySigned(req)
              /\ req.payload.Type = CheckoutSessionCompleted
              /\ customer \in {StripeCustomers[id] : id \in DOMAIN StripeCustomers}
        /\ (w.body = JsonNull \/ Count(trace, "writeJSON") > 0) =>
              /\ ValidlySigned(req)
              /\ PublishSucceeded \/ req.payload.Type # CheckoutSessionCompleted
        /\ \A i \in DOMAIN trace :
              trace[i] \in FailureSteps =>
                  /\ pc = "done"
                  /\ i + 1 = Len(trace)
                  /\ trace[i + 1] \in {"http.Error", "panic"}

\* a request that went through every step
C10_Witness ==
    /\ req.path = "/webhook" /\ pc = "done"
    /\ trace = <<"ReadAll.ok", "ConstructEvent.ok", "type.match", "customer.ok",
                 "Customers.Get", "Customers.Get.ok", "Marshal.ok", "ProduceSync",
                 "ProduceSync.ok", "writeJSON">>
    /\ w = [status |-> StatusOK, body |-> JsonNull]

\* ProduceSync was called in the request in hand on a nil broker client
ProduceSyncOnNilClient == Count(trace, "ProduceSync") > 0 /\ dh.kafkaClient = "nil"

\* C11: whatever the startup outcome (bootstrap servers unset, client
\* constructed, construction failed), /webhook is registered only if the
\* DonationHandler holds a non-nil broker client, so HandleWebhook never calls
\* ProduceSync on a nil client.
C11_PublishOnlyOnConstructedClient ==
    /\ "/webhook" \in routes => dh.kafkaClient # "nil"
    /\ ~ProduceSyncOnNilClient

====
